---- MODULE Spec2Model ----
(***************************************************************************)
(* A model of handy-simulator.py: the heuristic LinearCmd decoder          *)
(* (decode_varint, parse_linear_cmd_from_protobuf), the movement model of  *)
(* HandySimulator (start_movement, update_position) and the three asyncio  *)
(* tasks that HandySimulator.run creates, waits for and cancels.           *)
(*                                                                         *)
(* Python floats are modelled as exact rationals <<numerator, denominator>>*)
(* in lowest terms with a positive denominator; the inputs are chosen so   *)
(* that every value the model computes is exactly representable as a       *)
(* double as well (dyadic fractions).  Time is in milliseconds.            *)
(***************************************************************************)
EXTENDS Integers, Sequences, FiniteSets, TLC

VARIABLES
    current_position,   \* HandySimulator.current_position (rational)
    target_position,    \* HandySimulator.target_position (rational)
    current_movement,   \* Optional[Movement]: <<>> is None, <<m>> is a Movement
    speed_mms,          \* HandySimulator.speed_mms (rational)
    last_command_info,  \* HandySimulator.last_command_info: <<>> is "", else <<info>>
    now,                \* the value get_time_ms() returns (monotonic clock)
    last_call,          \* history: the operation that ran last, with its inputs
    running,            \* HandySimulator.running
    run_pc,             \* position of the coroutine HandySimulator.run
    task,               \* state of each of the three asyncio tasks
    cancel_req,         \* tasks on which Task.cancel() was called and not yet delivered
    wake_at,            \* clock value at which a task's asyncio.sleep ends
    conn,               \* state of the websocket connection
    frame,              \* what display_loop handed to update_display last
    data,               \* the byte buffer given to parse_linear_cmd_from_protobuf
    parsed,             \* what parse_linear_cmd_from_protobuf returned for data
    decode_pc           \* "input", then "returned" or "raised" once it was called

model_vars == <<current_position, target_position, current_movement, speed_mms,
                last_command_info, now, last_call>>
run_vars == <<running, run_pc, task, cancel_req, wake_at, conn, frame>>
decode_vars == <<data, parsed, decode_pc>>
vars == <<model_vars, run_vars, decode_vars>>

-----------------------------------------------------------------------------
(* Exact rational arithmetic standing for Python float arithmetic.          *)

Abs(x) == IF x < 0 THEN -x ELSE x

RECURSIVE GCD(_, _)
GCD(a, b) == IF b = 0 THEN a ELSE GCD(b, a % b)

\* n/d in lowest terms, d # 0
Rat(n, d) ==
    LET g == GCD(Abs(n), Abs(d))
        s == IF d < 0 THEN -1 ELSE 1
    IN  <<(s * n) \div g, (s * d) \div g>>

RatInt(n) == <<n, 1>>
RatAdd(a, b) == Rat(a[1] * b[2] + b[1] * a[2], a[2] * b[2])
RatSub(a, b) == Rat(a[1] * b[2] - b[1] * a[2], a[2] * b[2])
RatMul(a, b) == Rat(a[1] * b[1], a[2] * b[2])
RatDiv(a, b) == Rat(a[1] * b[2], a[2] * b[1])
RatLE(a, b) == a[1] * b[2] <= b[1] * a[2]
RatLT(a, b) == a[1] * b[2] < b[1] * a[2]
RatAbs(a) == <<Abs(a[1]), a[2]>>
\* Python's max(a, b) returns a unless b > a; min(a, b) returns a unless b < a
RatMax(a, b) == IF RatLT(a, b) THEN b ELSE a
RatMin(a, b) == IF RatLT(b, a) THEN b ELSE a
IntMax(a, b) == IF b > a THEN b ELSE a

None == <<>>
Some(x) == <<x>>

-----------------------------------------------------------------------------
(* Program constants.                                                       *)

UPDATE_INTERVAL_MS == 20
stroke_mm == 125
MinDurationMs == 10
DefaultDurationMs == 500

\* 0.001, the distance below which start_movement reports speed 0
SpeedThreshold == Rat(1, 1000)
\* the position and target HandySimulator.__init__ sets: 0.5
InitialPosition == Rat(1, 2)

-----------------------------------------------------------------------------
(* Bounds of the model.                                                     *)

\* the clock runs from 0 to MaxClockSteps * ClockUnit milliseconds
MaxClockSteps == 3
\* the clock moves in quarters of the physics period (5 ms)
ClockUnit == UPDATE_INTERVAL_MS \div 4
MaxClock == MaxClockSteps * ClockUnit

\* the arguments start_movement is called with: in range, on the edges, and
\* out of range on both sides (-0.5, 0.25, 1.5; -10 and 20 ms)
Positions == {Rat(-1, 2), Rat(1, 4), Rat(3, 2)}
Durations == {-10, 20}

-----------------------------------------------------------------------------
(* HandySimulator.start_movement and update_position.                       *)

\* mutant: the position is installed as given, without clamping
ClampPosition_Unclamped(position) == position

\* position = max(0.0, min(1.0, position))
ClampPosition(position) == RatMax(RatInt(0), RatMin(RatInt(1), position))

\* mutant: the duration is installed as given, without the 10 ms floor
ClampDuration_NoFloor(duration_ms) == duration_ms

\* duration_ms = max(10, duration_ms)
ClampDuration(duration_ms) == IntMax(MinDurationMs, duration_ms)

\* mutant: the speed is computed from the distance however small it is
ComputeSpeed_NoThreshold(position, duration_ms, cur) ==
    RatDiv(RatMul(RatAbs(RatSub(position, cur)), RatInt(stroke_mm)),
           Rat(duration_ms, 1000))

\* the speed start_movement computes for the clamped position and duration
ComputeSpeed(position, duration_ms, cur) ==
    LET distance == RatAbs(RatSub(position, cur))
    IN  IF RatLT(SpeedThreshold, distance)
        THEN RatDiv(RatMul(distance, RatInt(stroke_mm)), Rat(duration_ms, 1000))
        ELSE RatInt(0)

\* mutant: a command that arrives during a movement keeps that movement's target
NewMovement_KeepsTarget(cur, position, duration_ms, t) ==
    [start_position |-> cur,
     target_position |-> IF current_movement # None
                         THEN current_movement[1].target_position
                         ELSE position,
     duration_ms |-> duration_ms,
     start_time_ms |-> t,
     is_active |-> TRUE]

\* mutant: the new movement starts where the previous command pointed
NewMovement_FromOldTarget(cur, position, duration_ms, t) ==
    [start_position |-> target_position,
     target_position |-> position,
     duration_ms |-> duration_ms,
     start_time_ms |-> t,
     is_active |-> TRUE]

\* Movement(start_position=self.current_position, target_position=position, ...)
NewMovement(cur, position, duration_ms, t) ==
    [start_position |-> cur,
     target_position |-> position,
     duration_ms |-> duration_ms,
     start_time_ms |-> t,
     is_active |-> TRUE]

\* mutant: the new target is stored in the Movement only
start_movement_TargetNotStored(position, duration_ms) ==
    LET p == ClampPosition(position)
        d == ClampDuration(duration_ms)
    IN  /\ speed_mms' = ComputeSpeed(p, d, current_position)
        /\ current_movement' = Some(NewMovement(current_position, p, d, now))
        /\ UNCHANGED <<target_position, current_position>>

\* the assignments of start_movement(position, duration_ms)
start_movement(position, duration_ms) ==
    LET p == ClampPosition(position)
        d == ClampDuration(duration_ms)
    IN  /\ speed_mms' = ComputeSpeed(p, d, current_position)
        /\ current_movement' = Some(NewMovement(current_position, p, d, now))
        /\ target_position' = p
        /\ UNCHANGED current_position

\* mutant: no tick ever ends the movement
MovementDone_Never(movement, elapsed_ms) == FALSE

\* mutant: the first tick ends the movement, whatever time has elapsed
MovementDone_Always(movement, elapsed_ms) == TRUE

\* mutant: the movement ends only once elapsed_ms exceeds its duration
MovementDone_Strict(movement, elapsed_ms) == elapsed_ms > movement.duration_ms

\* has the movement run its full duration at elapsed_ms?
MovementDone(movement, elapsed_ms) == elapsed_ms >= movement.duration_ms

\* mutant: a finished movement leaves the position where the last tick put it
FinalPosition_NoSnap(movement) == current_position

\* the position a finished movement leaves
FinalPosition(movement) == movement.target_position

\* start + (target - start) * (elapsed / duration)
Interpolate(movement, elapsed_ms) ==
    LET progress == Rat(elapsed_ms, movement.duration_ms)
    IN  RatAdd(movement.start_position,
               RatMul(RatSub(movement.target_position, movement.start_position),
                      progress))

\* mutant: the completing tick leaves the speed as start_movement set it
update_position_SpeedKept ==
    IF current_movement # None /\ current_movement[1].is_active
    THEN LET movement == current_movement[1]
             elapsed_ms == now - movement.start_time_ms
         IN  IF MovementDone(movement, elapsed_ms)
             THEN /\ current_position' = FinalPosition(movement)
                  /\ current_movement' = None
                  /\ UNCHANGED <<speed_mms, target_position>>
             ELSE /\ current_position' = Interpolate(movement, elapsed_ms)
                  /\ UNCHANGED <<speed_mms, current_movement, target_position>>
    ELSE UNCHANGED <<current_position, speed_mms, current_movement, target_position>>

\* mutant: without a Movement the tick moves the position back to the centre
update_position_IdleRecentre ==
    IF current_movement # None /\ current_movement[1].is_active
    THEN LET movement == current_movement[1]
             elapsed_ms == now - movement.start_time_ms
         IN  IF MovementDone(movement, elapsed_ms)
             THEN /\ current_position' = FinalPosition(movement)
                  /\ speed_mms' = RatInt(0)
                  /\ current_movement' = None
                  /\ UNCHANGED target_position
             ELSE /\ current_position' = Interpolate(movement, elapsed_ms)
                  /\ UNCHANGED <<speed_mms, current_movement, target_position>>
    ELSE /\ current_position' = InitialPosition
         /\ UNCHANGED <<speed_mms, current_movement, target_position>>

\* the assignments of update_position()
update_position ==
    IF current_movement # None /\ current_movement[1].is_active
    THEN LET movement == current_movement[1]
             elapsed_ms == now - movement.start_time_ms
         IN  IF MovementDone(movement, elapsed_ms)
             THEN /\ current_position' = FinalPosition(movement)
                  /\ speed_mms' = RatInt(0)
                  /\ current_movement' = None
                  /\ UNCHANGED target_position
             ELSE /\ current_position' = Interpolate(movement, elapsed_ms)
                  /\ UNCHANGED <<speed_mms, current_movement, target_position>>
    ELSE UNCHANGED <<current_position, speed_mms, current_movement, target_position>>

-----------------------------------------------------------------------------
(* Spec: the movement model driven through its two operations, called in    *)
(* any order at any non-decreasing clock values.                            *)

\* history kept next to the model: the operation that ran last (op, its
\* arguments, the Movement and the position it found) and, in command, the
\* most recent start_movement call (its position argument and whether it found
\* the model without a Movement), None before the first one
NoCall == [op |-> "init", position |-> RatInt(0), duration_ms |-> 0,
           replaced |-> None, prev_position |-> InitialPosition,
           command |-> None]

InitModel ==
    /\ current_position = InitialPosition
    /\ target_position = InitialPosition
    /\ current_movement = None
    /\ speed_mms = RatInt(0)
    /\ last_command_info = None
    /\ now = 0
    /\ last_call = NoCall

IdleRun ==
    /\ running = FALSE
    /\ run_pc = "unused"
    /\ task = <<>>
    /\ cancel_req = {}
    /\ wake_at = <<>>
    /\ conn = "none"
    /\ frame = None

IdleDecode ==
    /\ data = <<>>
    /\ parsed = None
    /\ decode_pc = "unused"

Init == InitModel /\ IdleRun /\ IdleDecode

\* a caller (the receive activity) calls start_movement(position, duration_ms)
StartMovement ==
    \E position \in Positions, duration_ms \in Durations :
        /\ start_movement(position, duration_ms)
        /\ last_call' = [op |-> "start_movement", position |-> position,
                         duration_ms |-> duration_ms,
                         replaced |-> current_movement,
                         prev_position |-> current_position,
                         command |-> Some([position |-> position,
                                           from_idle |-> current_movement = None])]
        /\ UNCHANGED <<last_command_info, now, run_vars, decode_vars>>

\* a caller (the physics activity) calls update_position()
UpdatePosition ==
    /\ update_position
    /\ last_call' = [op |-> "update_position", position |-> RatInt(0),
                     duration_ms |-> 0, replaced |-> current_movement,
                     prev_position |-> current_position,
                     command |-> last_call.command]
    /\ UNCHANGED <<last_command_info, now, run_vars, decode_vars>>

\* time.monotonic() moves forward between two operations
AdvanceClock ==
    /\ now + ClockUnit <= MaxClock
    /\ now' = now + ClockUnit
    /\ UNCHANGED <<current_position, target_position, current_movement,
                   speed_mms, last_command_info, last_call,
                   run_vars, decode_vars>>

Next == StartMovement \/ UpdatePosition \/ AdvanceClock

Spec == Init /\ [][Next]_vars

-----------------------------------------------------------------------------
(* SpecSpeed: the same two operations, called with targets that lie within  *)
(* a thousandth of a position the model can rest at (1/1024 next to 0,      *)
(* 511/1024 next to 0.5), at clock values 10 ms apart.                      *)

MaxSpeedSteps == 2
SpeedClockUnit == UPDATE_INTERVAL_MS \div 2
MaxSpeedClock == MaxSpeedSteps * SpeedClockUnit

SpeedPositions == {Rat(-1, 2), Rat(1, 1024), Rat(511, 1024), Rat(3, 4)}
SpeedDurations == {-10, 20}

\* a caller calls start_movement(position, duration_ms)
StartMovementNear ==
    \E position \in SpeedPositions, duration_ms \in SpeedDurations :
        /\ start_movement(position, duration_ms)
        /\ last_call' = [op |-> "start_movement", position |-> position,
                         duration_ms |-> duration_ms,
                         replaced |-> current_movement,
                         prev_position |-> current_position,
                         command |-> Some([position |-> position,
                                           from_idle |-> current_movement = None])]
        /\ UNCHANGED <<last_command_info, now, run_vars, decode_vars>>

\* time.monotonic() moves forward between two operations
AdvanceSpeedClock ==
    /\ now + SpeedClockUnit <= MaxSpeedClock
    /\ now' = now + SpeedClockUnit
    /\ UNCHANGED <<current_position, target_position, current_movement,
                   speed_mms, last_command_info, last_call,
                   run_vars, decode_vars>>

NextSpeed == StartMovementNear \/ UpdatePosition \/ AdvanceSpeedClock

SpecSpeed == Init /\ [][NextSpeed]_vars

-----------------------------------------------------------------------------
(* decode_varint and parse_linear_cmd_from_protobuf.  A buffer is a sequence *)
(* of bytes 0..255; offsets are Python's (the first byte is at offset 0).    *)

SENTINEL == 16
MinAcceptedMs == 10
MaxAcceptedMs == 10000

\* data[i]
ByteAt(d, i) == d[i + 1]

\* data[i:j], with Python's clamping of the slice to the buffer
Slice(d, i, j) ==
    LET hi == IF j < Len(d) THEN j ELSE Len(d)
    IN  IF i >= hi THEN <<>> ELSE [k \in 1..(hi - i) |-> d[i + k]]

\* Varint values are kept exactly below 2^14 and as 2^14 from there on: the
\* program only compares them with 10 and 10000.
VarintCap == 2 ^ 14
Pow2(n) == 2 ^ n

\* result |= bits << shift, where bits are 7 bits that result does not hold yet
OrShifted(result, bits, shift) ==
    IF bits = 0 THEN result
    ELSE IF shift >= 14 THEN VarintCap
    ELSE IF result + bits * Pow2(shift) >= VarintCap THEN VarintCap
    ELSE result + bits * Pow2(shift)

\* the while loop of decode_varint
RECURSIVE VarintLoop(_, _, _, _, _)
VarintLoop(d, offset, result, shift, consumed) ==
    IF offset + consumed < Len(d)
    THEN LET byte == ByteAt(d, offset + consumed)
             result2 == OrShifted(result, byte % 128, shift)
         IN  IF byte < 128
             THEN [raised |-> FALSE, value |-> result2, consumed |-> consumed + 1]
             ELSE IF shift + 7 > 63
             THEN [raised |-> TRUE, value |-> 0, consumed |-> 0]
             ELSE VarintLoop(d, offset, result2, shift + 7, consumed + 1)
    ELSE [raised |-> FALSE, value |-> result, consumed |-> consumed]

\* decode_varint(data, offset): (value, bytes_consumed), or ValueError raised
decode_varint(d, offset) == VarintLoop(d, offset, 0, 0, 0)

\* The IEEE-754 double that 8 little-endian bytes hold: its sign bit, its 11
\* exponent bits and its 52 mantissa bits (a nibble and six bytes, high first).
DoubleOf(w) ==
    [sign |-> w[8] \div 128,
     exponent |-> (w[8] % 128) * 16 + (w[7] \div 16),
     mantissa |-> <<w[7] % 16, w[6], w[5], w[4], w[3], w[2], w[1]>>]

ZeroMantissa == <<0, 0, 0, 0, 0, 0, 0>>

\* mutant: a short window is read as if zero bytes followed it
Unpack_ZeroPadded(window) ==
    [raised |-> FALSE,
     value |-> Some(DoubleOf([k \in 1..8 |->
                   IF k <= Len(window) THEN window[k] ELSE 0]))]

\* struct.unpack('<d', window): struct.error unless window has 8 bytes
Unpack(window) ==
    IF Len(window) # 8
    THEN [raised |-> TRUE, value |-> None]
    ELSE [raised |-> FALSE, value |-> Some(DoubleOf(window))]

\* 0.0 <= val <= 1.0 for a double: +0.0 and -0.0, the subnormals and normals
\* below 1.0 (exponent < 1023) and 1.0 itself; false for NaN and infinities
InUnitRange(val) ==
    IF val.sign = 0
    THEN \/ val.exponent < 1023
         \/ val.exponent = 1023 /\ val.mantissa = ZeroMantissa
    ELSE val.exponent = 0 /\ val.mantissa = ZeroMantissa

\* one iteration of the position loop at offset i: the position it accepts,
\* or None when unpack raised (swallowed) or the value is out of range
PositionCandidate(d, i) ==
    LET r == Unpack(Slice(d, i, i + 8))
    IN  IF r.raised THEN None
        ELSE IF InUnitRange(r.value[1]) THEN r.value ELSE None

\* mutant: the position loop starts at the highest multiple of 8 at which a
\* full window fits
PositionScanStart_Aligned(d) == 8 * ((Len(d) - 8) \div 8)

\* the first offset the position loop tries: range(len(data) - 7, -1, -1)
PositionScanStart(d) == Len(d) - 7

\* for i in range(len(data) - 7, -1, -1): ... break at the first acceptance
RECURSIVE ScanPosition(_, _)
ScanPosition(d, i) ==
    IF i < 0 THEN None
    ELSE IF PositionCandidate(d, i) # None THEN PositionCandidate(d, i)
    ELSE ScanPosition(d, i - 1)

\* one past the last offset the duration loop tries: range(len(data) - 2)
DurationScanEnd(d) == Len(d) - 2

\* mutant: the first varint after a sentinel is taken whatever its value
DurationCandidate_AnyValue(d, i) ==
    LET r == decode_varint(d, i + 1)
    IN  IF r.raised THEN [kind |-> "skip", value |-> 0]
        ELSE [kind |-> "accept", value |-> r.value]

\* mutant: the ValueError of decode_varint is not caught
DurationCandidate_Uncaught(d, i) ==
    LET r == decode_varint(d, i + 1)
    IN  IF r.raised THEN [kind |-> "raise", value |-> 0]
        ELSE IF MinAcceptedMs <= r.value /\ r.value <= MaxAcceptedMs
        THEN [kind |-> "accept", value |-> r.value]
        ELSE [kind |-> "skip", value |-> 0]

\* one iteration of the duration loop at a sentinel byte: "accept" the value,
\* "skip" to the next offset, or let the exception through ("raise")
DurationCandidate(d, i) ==
    LET r == decode_varint(d, i + 1)
    IN  IF r.raised THEN [kind |-> "skip", value |-> 0]
        ELSE IF MinAcceptedMs <= r.value /\ r.value <= MaxAcceptedMs
        THEN [kind |-> "accept", value |-> r.value]
        ELSE [kind |-> "skip", value |-> 0]

\* for i in range(len(data) - 2): if data[i] == 0x10: ...
RECURSIVE ScanDuration(_, _)
ScanDuration(d, i) ==
    IF i >= DurationScanEnd(d) THEN [raised |-> FALSE, value |-> None]
    ELSE IF ByteAt(d, i) = SENTINEL
    THEN LET c == DurationCandidate(d, i)
         IN  IF c.kind = "accept" THEN [raised |-> FALSE, value |-> Some(c.value)]
             ELSE IF c.kind = "raise" THEN [raised |-> TRUE, value |-> None]
             ELSE ScanDuration(d, i + 1)
    ELSE ScanDuration(d, i + 1)

\* "duration if duration else 500"
DurationOrDefault(duration) ==
    IF duration # None /\ duration[1] # 0 THEN duration[1] ELSE DefaultDurationMs

\* parse_linear_cmd_from_protobuf(data): the dict it returns, None, or an
\* exception leaving it
parse_linear_cmd_from_protobuf(d) ==
    LET position == ScanPosition(d, PositionScanStart(d))
        duration == ScanDuration(d, 0)
    IN  IF duration.raised THEN [raised |-> TRUE, value |-> None]
        ELSE IF position # None
        THEN [raised |-> FALSE,
              value |-> Some([vectors |->
                  <<[position |-> position[1],
                     duration_ms |-> DurationOrDefault(duration.value)]>>])]
        ELSE [raised |-> FALSE, value |-> None]

-----------------------------------------------------------------------------
(* SpecDecode: parse_linear_cmd_from_protobuf applied to every buffer made  *)
(* of at most MaxChunks of the byte groups below.                           *)

MaxChunks == 4

Sentinel1 == <<16>>                      \* the tag byte 0x10
Tagged250 == <<16, 250, 1>>              \* the tag byte and varint 250
Varint5 == <<5>>                         \* varint 5, below the accepted range
VarintBig == <<255, 255, 3>>             \* varint 65535, above the accepted range
Continuation5 == <<128, 128, 128, 128, 128>>   \* five continuation bytes
Zero6 == <<0, 0, 0, 0, 0, 0>>            \* low six bytes of a double
Top2 == <<0, 64>>                        \* with Zero6 before it: 2.0
Double075Bytes == <<0, 0, 0, 0, 0, 0, 232, 63>>   \* the double 0.75
Chunks == {Sentinel1, Tagged250, Varint5, VarintBig, Continuation5, Zero6,
           Top2, Double075Bytes}

RECURSIVE Concats(_)
Concats(k) ==
    IF k = 0 THEN {<<>>}
    ELSE LET shorter == Concats(k - 1)
         IN  shorter \cup {b \o c : b \in shorter, c \in Chunks}

Buffers == Concats(MaxChunks)

InitDecode ==
    /\ data \in Buffers
    /\ parsed = None
    /\ decode_pc = "input"
    /\ InitModel
    /\ IdleRun

\* the caller calls parse_linear_cmd_from_protobuf(data)
Decode ==
    /\ decode_pc = "input"
    /\ LET r == parse_linear_cmd_from_protobuf(data)
       IN  /\ parsed' = r.value
           /\ decode_pc' = IF r.raised THEN "raised" ELSE "returned"
    /\ UNCHANGED <<data, model_vars, run_vars>>

NextDecode == Decode

SpecDecode == InitDecode /\ [][NextDecode]_vars

-----------------------------------------------------------------------------
(* SpecRun: HandySimulator.run and the three tasks it creates, as the       *)
(* asyncio event loop runs them: one task at a time, each step running from *)
(* one await to the next.                                                   *)

\* timeout of asyncio.wait_for(self.websocket.recv(), timeout=0.1), in ms
RECV_TIMEOUT_MS == 100

\* the clock of a session moves in steps of half the receive timeout (50 ms),
\* from 0 to MaxRunSteps * 50 ms
MaxRunSteps == 2
RunClockUnit == RECV_TIMEOUT_MS \div 2
MaxRunClock == MaxRunSteps * RunClockUnit

TaskNames == {"movement", "display", "message"}
Finished(t) == task[t] = "done"

\* the binary messages the server sends: one that decodes to (0.75, 100 ms)
\* and one from which no position can be recovered
RunMessages == {<<16, 100>> \o Double075Bytes, Tagged250}

\* The rational value of a double in [0, 1] whose mantissa bits below the top
\* four are zero (all positions of RunMessages are such doubles).
DoubleToRat(val) ==
    IF val.exponent = 0 /\ val.mantissa = ZeroMantissa THEN RatInt(0)
    ELSE Rat(16 + val.mantissa[1], 16 * Pow2(1023 - val.exponent))

\* round(x) to the nearest integer, ties to even, as float formatting does
RoundHalfEven(x) ==
    LET q == x[1] \div x[2]
        twice == 2 * (x[1] - q * x[2])
    IN  IF twice < x[2] THEN q
        ELSE IF twice > x[2] THEN q + 1
        ELSE IF q % 2 = 0 THEN q ELSE q + 1

\* f"Position={pos*100:.1f}%, Duration={dur}ms": the position in tenths of a
\* percent and the duration
CommandInfo(pos, dur) ==
    [position_tenths |-> RoundHalfEven(RatMul(pos, RatInt(1000))),
     duration_ms |-> dur]

InitRun ==
    /\ InitModel
    /\ IdleDecode
    /\ running = FALSE
    /\ run_pc = "connect"
    /\ task = [t \in TaskNames |-> "none"]
    /\ cancel_req = {}
    /\ wake_at = [t \in TaskNames |-> 0]
    /\ conn = "none"
    /\ frame = None

\* websockets.connect fails (ConnectionRefusedError or another exception before
\* the tasks exist): the error is logged and the finally block runs
RunConnectFailed ==
    /\ run_pc = "connect"
    /\ running' = FALSE
    /\ run_pc' = "returned"
    /\ UNCHANGED <<task, cancel_req, wake_at, conn, frame, model_vars, decode_vars>>

\* the connection opens: running = True, the handshake is sent, the three
\* tasks are created and run awaits asyncio.wait(..., FIRST_COMPLETED)
RunStart ==
    /\ run_pc = "connect"
    /\ conn' = "open"
    /\ running' = TRUE
    /\ task' = [t \in TaskNames |-> "ready"]
    /\ run_pc' = "waiting"
    /\ UNCHANGED <<cancel_req, wake_at, frame, model_vars, decode_vars>>

\* mutant: no task is cancelled when asyncio.wait returns
PendingTasks_None == {}

\* the tasks asyncio.wait reports as pending when it returns
PendingTasks == {t \in TaskNames : ~Finished(t)}

\* asyncio.wait returns because a task is done; run calls cancel() on every
\* pending task and enters the exit of "async with websockets.connect(...)"
RunWaitReturns ==
    /\ run_pc = "waiting"
    /\ \E t \in TaskNames : Finished(t)
    /\ cancel_req' = cancel_req \cup PendingTasks
    /\ run_pc' = "closing"
    /\ UNCHANGED <<running, task, wake_at, conn, frame, model_vars, decode_vars>>

\* the connection is released, the finally block sets running = False and
\* run returns
RunReturn ==
    /\ run_pc = "closing"
    /\ conn' = "released"
    /\ running' = FALSE
    /\ run_pc' = "returned"
    /\ UNCHANGED <<task, cancel_req, wake_at, frame, model_vars, decode_vars>>

\* a task may take a step: it was just created and the tasks created before
\* it have started (the loop starts tasks in creation order), or its sleep
\* is over; a task with a cancellation pending gets CancelledError instead
Runnable(t, earlier) ==
    /\ t \notin cancel_req
    /\ \/ task[t] = "ready" /\ \A e \in earlier : task[e] # "ready"
       \/ task[t] = "sleeping" /\ now >= wake_at[t]

\* movement_loop: "while self.running: update_position(); await sleep(...)"
MovementStep ==
    /\ Runnable("movement", {})
    /\ IF running
       THEN /\ update_position
            /\ last_call' = [op |-> "update_position", position |-> RatInt(0),
                             duration_ms |-> 0, replaced |-> current_movement,
                             prev_position |-> current_position,
                             command |-> last_call.command]
            /\ task' = [task EXCEPT !["movement"] = "sleeping"]
            /\ wake_at' = [wake_at EXCEPT !["movement"] = now + UPDATE_INTERVAL_MS]
       ELSE /\ task' = [task EXCEPT !["movement"] = "done"]
            /\ UNCHANGED <<current_position, target_position, current_movement,
                           speed_mms, last_call, wake_at>>
    /\ UNCHANGED <<last_command_info, now, running, run_pc, cancel_req, conn,
                   frame, decode_vars>>

\* movement_loop gets CancelledError at its await and breaks
MovementCancelled ==
    /\ "movement" \in cancel_req
    /\ task["movement"] \in {"ready", "sleeping"}
    /\ task' = [task EXCEPT !["movement"] = "done"]
    /\ cancel_req' = cancel_req \ {"movement"}
    /\ UNCHANGED <<running, run_pc, wake_at, conn, frame, model_vars, decode_vars>>

\* what display_loop passes to update_display
Snapshot ==
    [position |-> current_position,
     target |-> target_position,
     moving |-> current_movement # None /\ current_movement[1].is_active,
     movement |-> current_movement,
     speed_mms |-> speed_mms,
     command_info |-> last_command_info]

\* display_loop: "while self.running: update_display(...); await sleep(...)"
DisplayStep ==
    /\ Runnable("display", {"movement"})
    /\ IF running
       THEN /\ frame' = Some(Snapshot)
            /\ task' = [task EXCEPT !["display"] = "sleeping"]
            /\ wake_at' = [wake_at EXCEPT !["display"] = now + UPDATE_INTERVAL_MS]
       ELSE /\ task' = [task EXCEPT !["display"] = "done"]
            /\ UNCHANGED <<frame, wake_at>>
    /\ UNCHANGED <<running, run_pc, cancel_req, conn, model_vars, decode_vars>>

\* display_loop gets CancelledError at its await and breaks
DisplayCancelled ==
    /\ "display" \in cancel_req
    /\ task["display"] \in {"ready", "sleeping"}
    /\ task' = [task EXCEPT !["display"] = "done"]
    /\ cancel_req' = cancel_req \ {"display"}
    /\ UNCHANGED <<running, run_pc, wake_at, conn, frame, model_vars, decode_vars>>

\* message_loop starts: "while self.running: await wait_for(recv(), 0.1)"
MessageStart ==
    /\ Runnable("message", {"movement", "display"})
    /\ task' = [task EXCEPT !["message"] = IF running THEN "receiving" ELSE "done"]
    /\ wake_at' = [wake_at EXCEPT !["message"] = now + RECV_TIMEOUT_MS]
    /\ UNCHANGED <<running, run_pc, cancel_req, conn, frame, model_vars, decode_vars>>

\* message_loop goes back to "while self.running" and awaits recv again
MessageLoopsBack ==
    /\ task' = [task EXCEPT !["message"] = IF running THEN "receiving" ELSE "done"]
    /\ wake_at' = [wake_at EXCEPT !["message"] = now + RECV_TIMEOUT_MS]

\* mutant: a payload that yields no Command stops the movement in progress and
\* clears the command description
handle_message_ResetOnUnknown(message) ==
    LET r == parse_linear_cmd_from_protobuf(message)
    IN  IF r.value # None /\ Len(r.value[1].vectors) > 0
        THEN LET v == r.value[1].vectors[1]
                 pos == DoubleToRat(v.position)
                 dur == v.duration_ms
             IN  /\ last_command_info' = Some(CommandInfo(pos, dur))
                 /\ start_movement(pos, dur)
                 /\ last_call' = [op |-> "start_movement", position |-> pos,
                                  duration_ms |-> dur,
                                  replaced |-> current_movement,
                                  prev_position |-> current_position,
                                  command |-> Some([position |-> pos,
                                                    from_idle |-> current_movement = None])]
        ELSE /\ current_movement' = None
             /\ last_command_info' = None
             /\ UNCHANGED <<current_position, target_position, speed_mms>>
             /\ last_call' = [op |-> "unknown_message", position |-> RatInt(0),
                              duration_ms |-> 0, replaced |-> current_movement,
                              prev_position |-> current_position,
                              command |-> last_call.command]

\* the assignments of handle_message(data)
handle_message(message) ==
    LET r == parse_linear_cmd_from_protobuf(message)
    IN  IF r.value # None /\ Len(r.value[1].vectors) > 0
        THEN LET v == r.value[1].vectors[1]
                 pos == DoubleToRat(v.position)
                 dur == v.duration_ms
             IN  /\ last_command_info' = Some(CommandInfo(pos, dur))
                 /\ start_movement(pos, dur)
                 /\ last_call' = [op |-> "start_movement", position |-> pos,
                                  duration_ms |-> dur,
                                  replaced |-> current_movement,
                                  prev_position |-> current_position,
                                  command |-> Some([position |-> pos,
                                                    from_idle |-> current_movement = None])]
        ELSE /\ UNCHANGED <<current_position, target_position, current_movement,
                            speed_mms, last_command_info>>
             /\ last_call' = [op |-> "unknown_message", position |-> RatInt(0),
                              duration_ms |-> 0, replaced |-> current_movement,
                              prev_position |-> current_position,
                              command |-> last_call.command]

\* recv returns a binary message: handle_message runs
MessageBinary ==
    /\ task["message"] = "receiving"
    /\ conn = "open"
    /\ \E message \in RunMessages : handle_message(message)
    /\ MessageLoopsBack
    /\ UNCHANGED <<now, running, run_pc, cancel_req, conn, frame, decode_vars>>

\* recv returns a text message: it is logged and nothing else happens
MessageText ==
    /\ task["message"] = "receiving"
    /\ conn = "open"
    /\ last_call' = [op |-> "text_message", position |-> RatInt(0),
                     duration_ms |-> 0, replaced |-> current_movement,
                     prev_position |-> current_position,
                     command |-> last_call.command]
    /\ MessageLoopsBack
    /\ UNCHANGED <<current_position, target_position, current_movement, speed_mms,
                   last_command_info, now, running, run_pc, cancel_req, conn,
                   frame, decode_vars>>

\* wait_for times out after 100 ms without a message: "continue"
MessageTimeout ==
    /\ task["message"] = "receiving"
    /\ now >= wake_at["message"]
    /\ MessageLoopsBack
    /\ UNCHANGED <<running, run_pc, cancel_req, conn, frame, model_vars, decode_vars>>

\* recv raises ConnectionClosed: running = False and the loop breaks
MessageClosed ==
    /\ task["message"] = "receiving"
    /\ conn = "open"
    /\ conn' = "closed"
    /\ running' = FALSE
    /\ task' = [task EXCEPT !["message"] = "done"]
    /\ UNCHANGED <<run_pc, cancel_req, wake_at, frame, model_vars, decode_vars>>

\* time.monotonic() moves forward while the session runs
RunClock ==
    /\ \E t \in TaskNames : task[t] \notin {"none", "done"}
    /\ now + RunClockUnit <= MaxRunClock
    /\ now' = now + RunClockUnit
    /\ UNCHANGED <<current_position, target_position, current_movement,
                   speed_mms, last_command_info, last_call, run_vars, decode_vars>>

NextRun ==
    \/ RunConnectFailed \/ RunStart \/ RunWaitReturns \/ RunReturn
    \/ MovementStep \/ MovementCancelled
    \/ DisplayStep \/ DisplayCancelled
    \/ MessageStart \/ MessageBinary \/ MessageText \/ MessageTimeout
    \/ MessageClosed
    \/ RunClock

SpecRun == InitRun /\ [][NextRun]_vars

\* The event loop runs every callback it has scheduled: the wake-up of run
\* once a task is done, the rest of run, and the delivery of CancelledError to
\* a cancelled task (asyncio.run keeps the loop running until they are done).
SpecRunFair ==
    /\ SpecRun
    /\ WF_vars(RunWaitReturns)
    /\ WF_vars(RunReturn)
    /\ WF_vars(MovementCancelled)
    /\ WF_vars(DisplayCancelled)

\* The clock keeps advancing while the session runs, and the event loop wakes
\* the physics task whenever its asyncio.sleep is over: weak fairness of
\* RunClock and of MovementStep.  The latter is written out, with
\* Runnable("movement", {}) for ENABLED <<MovementStep>>_vars (a runnable
\* physics task always has a step to take, and the step changes task or
\* wake_at).
SpecRunLive ==
    /\ SpecRunFair
    /\ WF_vars(RunClock)
    /\ \/ []<>(~Runnable("movement", {}))
       \/ []<><<MovementStep>>_vars

-----------------------------------------------------------------------------
(* Claims about the movement model, checked under Spec.                     *)

Moving == current_movement # None
Idle == current_movement = None

\* C1: in every reachable state, whatever positions and durations
\* start_movement was called with and whenever update_position ran,
\* 0.0 <= current_position <= 1.0.
C1_PositionInRange ==
    /\ RatLE(RatInt(0), current_position)
    /\ RatLE(current_position, RatInt(1))

\* C1 witness: a tick has completed a movement whose commanded position was
\* above the range (1.5), and the position is the upper edge 1.0.
C1_Witness ==
    /\ last_call.op = "update_position"
    /\ last_call.replaced # None
    /\ Idle
    /\ current_position = RatInt(1)
    /\ last_call.prev_position # RatInt(1)

\* C2: whenever current_movement is absent, current_position equals
\* target_position.
C2_IdleAtTarget == Idle => current_position = target_position

\* C2 witness: a tick has just completed a movement, away from the initial 0.5,
\* after an intermediate tick had put the position strictly between the two.
C2_Witness ==
    /\ Idle
    /\ last_call.op = "update_position"
    /\ last_call.replaced # None
    /\ last_call.prev_position # last_call.replaced[1].start_position
    /\ last_call.prev_position # target_position
    /\ current_position # InitialPosition

\* the clamped values as the claim states them: min(1.0, max(0.0, p)), max(10, d)
C9_Position(p) ==
    LET lower == IF RatLT(p, RatInt(0)) THEN RatInt(0) ELSE p
    IN  IF RatLT(RatInt(1), lower) THEN RatInt(1) ELSE lower
C9_Duration(d) == IF d < 10 THEN 10 ELSE d

\* C9: right after start_movement(p, d) the installed Movement has
\* target_position = min(1.0, max(0.0, p)) and duration_ms = max(10, d), and
\* every installed Movement has a target in [0, 1] and a duration >= 10.
C9_InputsNormalized ==
    /\ last_call.op = "start_movement" =>
          /\ Moving
          /\ current_movement[1].target_position = C9_Position(last_call.position)
          /\ current_movement[1].duration_ms = C9_Duration(last_call.duration_ms)
          /\ target_position = C9_Position(last_call.position)
    /\ Moving =>
          /\ RatLE(RatInt(0), current_movement[1].target_position)
          /\ RatLE(current_movement[1].target_position, RatInt(1))
          /\ current_movement[1].duration_ms >= 10

\* C9 witness: start_movement(1.5, -10) has just run and installed a Movement
\* with target 1.0 and duration 10.
C9_Witness ==
    /\ last_call.op = "start_movement"
    /\ last_call.position = Rat(3, 2)
    /\ last_call.duration_ms = -10
    /\ Moving
    /\ current_movement[1].target_position = RatInt(1)
    /\ current_movement[1].duration_ms = 10

\* C10: right after a start_movement that replaced a Movement in progress, the
\* new Movement's start_position is the current_position the call found, and
\* current_position itself is what it was before the call.
C10_StartsFromCurrentPosition ==
    (last_call.op = "start_movement" /\ last_call.replaced # None) =>
        /\ Moving
        /\ current_movement[1].start_position = last_call.prev_position
        /\ current_position = last_call.prev_position

\* C10 witness: start_movement replaced a Movement whose last tick had left the
\* position strictly between that Movement's start and its target.
C10_Witness ==
    /\ last_call.op = "start_movement"
    /\ last_call.replaced # None
    /\ Moving
    /\ current_movement[1].start_position # last_call.replaced[1].start_position
    /\ current_movement[1].start_position # last_call.replaced[1].target_position
    /\ current_movement[1].target_position # last_call.replaced[1].target_position

-----------------------------------------------------------------------------
(* Claims about the decoder, checked under SpecDecode.                      *)

Decoded == decode_pc # "input"

\* the Command with one vector that the decoder returns
Command(position, duration_ms) ==
    Some([vectors |-> <<[position |-> position, duration_ms |-> duration_ms]>>])

\* 0.75 = 1.5 * 2^(1022 - 1023): sign 0, exponent 1022, mantissa 0x8000000000000
Double075 == [sign |-> 0, exponent |-> 1022, mantissa |-> <<8, 0, 0, 0, 0, 0, 0>>]
Bytes075 == <<0, 0, 0, 0, 0, 0, 232, 63>>

\* the bytes 0x10 0xFA 0x01 (sentinel, varint 250) stand at offset i
SentinelVarint250At(d, i) ==
    /\ 0 <= i /\ i + 2 < Len(d)
    /\ ByteAt(d, i) = 16 /\ ByteAt(d, i + 1) = 250 /\ ByteAt(d, i + 2) = 1

\* the last 8 bytes of the buffer are the double 0.75
EndsWith075(d) == Len(d) >= 8 /\ Slice(d, Len(d) - 8, Len(d)) = Bytes075

\* the sentinel at offset j is followed by a varint with a value in [10, 10000]
InRangeVarintAfter(d, j) ==
    /\ 0 <= j /\ j + 1 < Len(d)
    /\ ByteAt(d, j) = 16
    /\ ~decode_varint(d, j + 1).raised
    /\ 10 <= decode_varint(d, j + 1).value
    /\ decode_varint(d, j + 1).value <= 10000

\* C5: for a buffer of 0 to 7 bytes decode returns no Command.
C5_ShortBufferNoCommand ==
    (Decoded /\ Len(data) < 8) => (decode_pc = "returned" /\ parsed = None)

\* C5 witness: a decoded buffer of exactly 7 bytes that holds a sentinel-marked
\* varint 250 and yields nothing.
C5_Witness ==
    /\ decode_pc = "returned"
    /\ Len(data) = 7
    /\ \E i \in 0..4 : SentinelVarint250At(data, i)
    /\ parsed = None

\* C6 as stated: whenever the buffer contains 0x10 followed by varint 250 and
\* ends with the double 0.75, decode returns exactly (0.75, 250).
C6_AnyBufferWith250And075 ==
    (/\ Decoded
     /\ EndsWith075(data)
     /\ \E i \in 0..Len(data) : SentinelVarint250At(data, i))
    => parsed = Command(Double075, 250)

\* C6 amended: the same, provided no sentinel byte at a lower offset than the
\* one marking the varint 250 is followed by a varint with a value in
\* [10, 10000].
C6_First250And075 ==
    (/\ Decoded
     /\ EndsWith075(data)
     /\ \E i \in 0..Len(data) :
           /\ SentinelVarint250At(data, i)
           /\ \A j \in 0..(i - 1) : ~InRangeVarintAfter(data, j))
    => parsed = Command(Double075, 250)

\* C6 witness: a decoded buffer holding an earlier sentinel whose varint (5) is
\* out of range, then 0x10 0xFA 0x01, other bytes, and the double 0.75 last.
C6_Witness ==
    /\ decode_pc = "returned"
    /\ EndsWith075(data)
    /\ \E i \in 2..Len(data) :
          /\ SentinelVarint250At(data, i)
          /\ ByteAt(data, 0) = 16
          /\ \A j \in 0..(i - 1) : ~InRangeVarintAfter(data, j)
    /\ parsed = Command(Double075, 250)

\* the highest multiple of 8 at which a whole 8-byte window fits
LastAlignedOffset(d) == 8 * ((Len(d) - 8) \div 8)

\* no byte 0x10 is followed by any byte (so no varint is sentinel-marked)
NoSentinelMarkedVarint(d) == \A i \in 0..(Len(d) - 2) : ByteAt(d, i) # 16

\* C7 as stated: when the window at the last 8-byte-aligned offset is a double
\* in [0, 1] and no varint is sentinel-marked, decode returns that window's
\* value with duration 500.
C7_AlignedWindowReturned ==
    (/\ Decoded
     /\ Len(data) >= 8
     /\ NoSentinelMarkedVarint(data)
     /\ InUnitRange(DoubleOf(Slice(data, LastAlignedOffset(data),
                                   LastAlignedOffset(data) + 8))))
    => parsed = Command(DoubleOf(Slice(data, LastAlignedOffset(data),
                                       LastAlignedOffset(data) + 8)), 500)

\* C7 amended: when the last 8 bytes of the buffer (the window at offset
\* len - 8, whatever its alignment) are a double in [0, 1] and no varint is
\* sentinel-marked, decode returns that window's value with duration 500.
C7_TrailingWindowReturned ==
    (/\ Decoded
     /\ Len(data) >= 8
     /\ NoSentinelMarkedVarint(data)
     /\ InUnitRange(DoubleOf(Slice(data, Len(data) - 8, Len(data)))))
    => parsed = Command(DoubleOf(Slice(data, Len(data) - 8, Len(data))), 500)

\* C7 witness: a decoded buffer whose length is no multiple of 8, with in-range
\* doubles both in its last 8 bytes and at the last aligned offset, whose
\* values differ; the last 8 bytes are what is returned.
C7_Witness ==
    /\ decode_pc = "returned"
    /\ Len(data) > 8 /\ Len(data) % 8 # 0
    /\ NoSentinelMarkedVarint(data)
    /\ InUnitRange(DoubleOf(Slice(data, Len(data) - 8, Len(data))))
    /\ InUnitRange(DoubleOf(Slice(data, LastAlignedOffset(data),
                                  LastAlignedOffset(data) + 8)))
    /\ DoubleOf(Slice(data, Len(data) - 8, Len(data)))
         # DoubleOf(Slice(data, LastAlignedOffset(data), LastAlignedOffset(data) + 8))
    /\ parsed = Command(DoubleOf(Slice(data, Len(data) - 8, Len(data))), 500)

\* the sentinel at offset i is followed by ten continuation bytes: decode_varint
\* pushes its shift past 63 there
MalformedVarintAfter(d, i) ==
    /\ 0 <= i /\ i + 10 < Len(d)
    /\ ByteAt(d, i) = 16
    /\ \A k \in 1..10 : ByteAt(d, i + k) >= 128

\* the offsets the duration scan looks at that hold an in-range candidate
ValidCandidates(d) == {j \in 0..(Len(d) - 3) : InRangeVarintAfter(d, j)}

\* some 8-byte window of the buffer is a double in [0, 1]
SomeWindowInRange(d) ==
    \E i \in 0..(Len(d) - 8) : InUnitRange(DoubleOf(Slice(d, i, i + 8)))

\* C8: decode never raises; and when the first sentinel candidate of a buffer
\* is a malformed varint, a Command is returned exactly if some window is a
\* double in [0, 1], and its duration is that of the first valid candidate
\* after the malformed one, or 500 if there is none.
C8_MalformedVarintSkipped ==
    /\ decode_pc # "raised"
    /\ \A i \in 0..Len(data) :
          (/\ Decoded
           /\ MalformedVarintAfter(data, i)
           /\ \A j \in 0..(i - 1) : ~InRangeVarintAfter(data, j))
          => /\ (parsed # None) <=> SomeWindowInRange(data)
             /\ parsed # None =>
                   parsed[1].vectors[1].duration_ms =
                      IF ValidCandidates(data) = {} THEN 500
                      ELSE LET first == CHOOSE j \in ValidCandidates(data) :
                                           \A k \in ValidCandidates(data) : j <= k
                           IN  decode_varint(data, first + 1).value

\* C8 witness: a decoded buffer that starts with a sentinel and ten continuation
\* bytes and holds a valid candidate later; the Command carries that duration.
C8_Witness ==
    /\ decode_pc = "returned"
    /\ MalformedVarintAfter(data, 0)
    /\ \E j \in 11..Len(data) : SentinelVarint250At(data, j)
    /\ parsed # None
    /\ parsed[1].vectors[1].duration_ms = 250

\* C8, the default: after a malformed varint and with no valid candidate, a
\* recovered position comes with duration 500.
C8_WitnessDefault ==
    /\ decode_pc = "returned"
    /\ MalformedVarintAfter(data, 0)
    /\ ValidCandidates(data) = {}
    /\ EndsWith075(data)
    /\ parsed = Command(Double075, 500)

\* every offset of the buffer at which the sentinel stands and is followed by a
\* varint with a value in [10, 10000], wherever in the buffer it is
SentinelMarkedInRange(d) == {j \in 0..(Len(d) - 1) : InRangeVarintAfter(d, j)}

\* C18: the duration of a returned Command is the value of the lowest-offset
\* sentinel-marked varint with a value in [10, 10000], and it is the default
\* 500 only if no sentinel byte anywhere in the buffer, the last two byte
\* positions included, is followed by a varint with a value in that range.
C18_FirstInRangeVarintAnywhere ==
    (Decoded /\ parsed # None) =>
        parsed[1].vectors[1].duration_ms =
            IF SentinelMarkedInRange(data) = {} THEN 500
            ELSE LET first == CHOOSE j \in SentinelMarkedInRange(data) :
                                 \A k \in SentinelMarkedInRange(data) : j <= k
                 IN  decode_varint(data, first + 1).value

-----------------------------------------------------------------------------
(* Claims about the coordinator, checked under SpecRun and SpecRunFair.     *)

AllEnded == \A t \in TaskNames : task[t] = "done"

\* C3: whenever run has returned, or has released the connection, each of the
\* three tasks it created has ended.
C3_RunReturnsAfterAllEnded ==
    (run_pc = "returned" \/ conn = "released") =>
        \A t \in TaskNames : task[t] \in {"none", "done"}

\* C4: once the transport has reported the connection closed, the receive
\* task has ended and eventually all three tasks have; and once
\* asyncio.wait has returned in run, every task has finished or has been
\* cancelled.
C4_ClosureStopsAll ==
    /\ (conn = "closed") ~> AllEnded
    /\ [](conn = "closed" => Finished("message"))
    /\ []((run_pc \in {"closing", "returned"} /\ conn # "none") =>
             \A t \in TaskNames : Finished(t) \/ t \in cancel_req)

\* C4 witness: the transport has closed while a movement was in progress, the
\* receive task has ended and the physics and render tasks, still sleeping,
\* have both been cancelled.
C4_Witness ==
    /\ conn = "closed"
    /\ Finished("message")
    /\ cancel_req = {"movement", "display"}
    /\ task["movement"] = "sleeping"
    /\ task["display"] = "sleeping"
    /\ current_movement # None

-----------------------------------------------------------------------------
(* Further claims about the movement model, checked under Spec.  A step of  *)
(* the model is a tick exactly if it is an UpdatePosition step, and a call  *)
(* of start_movement exactly if it is a StartMovement step.                 *)

\* x lies strictly between a and b, whichever of the two is the larger
StrictlyBetween(x, a, b) ==
    \/ RatLT(a, x) /\ RatLT(x, b)
    \/ RatLT(b, x) /\ RatLT(x, a)

\* the Movement in progress was installed by a start_movement that found the
\* model Idle, and its target differs from its start
StartedIdleAwayFromStart ==
    /\ Moving
    /\ last_call.command # None
    /\ last_call.command[1].from_idle
    /\ current_movement[1].target_position # current_movement[1].start_position

\* C11: for a movement started while Idle with a target different from its
\* start, every tick with 0 < elapsed < duration_ms leaves current_position
\* strictly between start_position and target_position and the model Moving,
\* and the tick with elapsed >= duration_ms sets current_position exactly to
\* target_position and makes the model Idle.
C11_TickInterpolatesThenSnaps ==
    [][(UpdatePosition /\ StartedIdleAwayFromStart) =>
          LET movement == current_movement[1]
              elapsed_ms == now - movement.start_time_ms
          IN  /\ (0 < elapsed_ms /\ elapsed_ms < movement.duration_ms) =>
                    /\ StrictlyBetween(current_position',
                                       movement.start_position,
                                       movement.target_position)
                    /\ current_movement' = current_movement
              /\ elapsed_ms >= movement.duration_ms =>
                    /\ current_position' = movement.target_position
                    /\ current_movement' = None]_vars

\* C11 witness: a movement started while Idle, away from its start, was first
\* put strictly between start and target by a tick and has now been completed
\* by a later tick: the position is exactly its target and the model is Idle.
C11_Witness ==
    /\ last_call.op = "update_position"
    /\ last_call.command # None
    /\ last_call.command[1].from_idle
    /\ last_call.replaced # None
    /\ StrictlyBetween(last_call.prev_position,
                       last_call.replaced[1].start_position,
                       last_call.replaced[1].target_position)
    /\ now - last_call.replaced[1].start_time_ms >= last_call.replaced[1].duration_ms
    /\ current_position = last_call.replaced[1].target_position
    /\ Idle

\* C12: a tick while the model is Idle changes neither current_position nor
\* target_position, speed or current_movement, however often and at whatever
\* clock values it is called.
C12_IdleTickNoOp ==
    [][(UpdatePosition /\ Idle) =>
          UNCHANGED <<current_position, target_position, speed_mms,
                      current_movement>>]_vars

\* C12 witness: a tick has run while the model was Idle, after a command had
\* been completed away from the centre and the clock had moved on past the
\* completion, and the model still rests on that command's target.
C12_Witness ==
    /\ last_call.op = "update_position"
    /\ last_call.replaced = None
    /\ last_call.command # None
    /\ Idle
    /\ now > MinDurationMs
    /\ current_position # InitialPosition
    /\ current_position = last_call.prev_position
    /\ current_position = target_position
    /\ speed_mms = RatInt(0)

\* the target the most recent start_movement call asked for, clamped to [0, 1];
\* 0.5 before the first call
LastCommandedTarget ==
    IF last_call.command = None THEN InitialPosition
    ELSE C9_Position(last_call.command[1].position)

\* C17: after any sequence of commands and ticks, target_position is the
\* clamped position of the most recent start_movement (0.5 if there was
\* none); there is at most one Movement, and it is the one the most recent
\* start_movement created: each call installs its own Movement and no other
\* step installs or alters one; a tick, completing or not, never changes
\* target_position.
C17_LastCommandWins ==
    /\ [](target_position = LastCommandedTarget)
    /\ [](Len(current_movement) <= 1)
    /\ [][StartMovement =>
             current_movement' =
                <<[start_position |-> current_position,
                   target_position |-> C9_Position(last_call'.position),
                   duration_ms |-> C9_Duration(last_call'.duration_ms),
                   start_time_ms |-> now,
                   is_active |-> TRUE]>>]_vars
    /\ [][~StartMovement =>
             (current_movement' = current_movement \/ current_movement' = None)]_vars
    /\ [][UpdatePosition => target_position' = target_position]_vars

\* C17 witness: a command for 1.5 superseded a movement that a tick had
\* already carried away from its start, and a later tick has completed it:
\* target_position is still that command's clamped target, 1.0.
C17_Witness ==
    /\ last_call.op = "update_position"
    /\ last_call.command # None
    /\ last_call.command[1].position = Rat(3, 2)
    /\ ~last_call.command[1].from_idle
    /\ last_call.replaced # None
    /\ last_call.replaced[1].start_position # InitialPosition
    /\ RatLT(RatInt(0), last_call.replaced[1].start_position)
    /\ Idle
    /\ target_position = RatInt(1)

\* C19: in every reachable state in which the model is Idle, speed is 0: it
\* is 0 initially, and the tick that completes a movement resets it to 0,
\* after any sequence of start_movement and tick operations.
C19_IdleSpeedZero == Idle => speed_mms = RatInt(0)

\* C19 witness: a tick has just completed a movement that covered a distance
\* (so start_movement had set a positive speed), and the speed is 0 again.
C19_Witness ==
    /\ last_call.op = "update_position"
    /\ last_call.replaced # None
    /\ RatLT(SpeedThreshold,
             RatAbs(RatSub(last_call.replaced[1].target_position,
                           last_call.replaced[1].start_position)))
    /\ Idle
    /\ speed_mms = RatInt(0)

\* the distance the most recent operation, a start_movement, had to cover:
\* from the position it found to its clamped target
CommandedDistance ==
    RatAbs(RatSub(C9_Position(last_call.position), last_call.prev_position))

\* distance * 125 / (clamped duration in seconds)
SpeedOverDistance(distance) ==
    RatDiv(RatMul(distance, RatInt(125)),
           Rat(C9_Duration(last_call.duration_ms), 1000))

\* C20 as stated: right after any start_movement, speed is the distance between
\* current_position and the clamped target, times 125, divided by the clamped
\* duration in seconds; hence speed > 0 whenever the clamped target differs
\* from current_position.
C20_SpeedPositiveWheneverTargetDiffers ==
    last_call.op = "start_movement" =>
        /\ speed_mms = SpeedOverDistance(CommandedDistance)
        /\ C9_Position(last_call.position) # last_call.prev_position =>
              RatLT(RatInt(0), speed_mms)

\* C20 amended: right after any start_movement, speed is that quotient, and
\* > 0, when the distance exceeds 0.001; it is 0 when the distance is at most
\* 0.001, even if the clamped target differs from current_position.
C20_SpeedFromDistanceAboveThreshold ==
    last_call.op = "start_movement" =>
        IF RatLT(Rat(1, 1000), CommandedDistance)
        THEN /\ speed_mms = SpeedOverDistance(CommandedDistance)
             /\ RatLT(RatInt(0), speed_mms)
        ELSE speed_mms = RatInt(0)

\* C20 witness: start_movement(0.75, 20) has just replaced a movement, from a
\* position a tick had interpolated; the speed is the distance to 0.75 times
\* 125 over 0.02 s, which is positive.
C20_Witness ==
    /\ last_call.op = "start_movement"
    /\ last_call.position = Rat(3, 4)
    /\ last_call.duration_ms = 20
    /\ last_call.replaced # None
    /\ last_call.prev_position # last_call.replaced[1].start_position
    /\ last_call.prev_position # last_call.replaced[1].target_position
    /\ RatLT(Rat(1, 1000), CommandedDistance)
    /\ speed_mms = RatMul(CommandedDistance, RatInt(6250))
    /\ RatLT(RatInt(0), speed_mms)

-----------------------------------------------------------------------------
(* Further claims about the session, checked under SpecRun and SpecRunFair. *)

\* the receive activity has just taken a message that is no command: a text
\* message, or a binary payload from which decode recovers no Command
IgnoredMessage ==
    \/ MessageText
    \/ /\ MessageBinary
       /\ \E message \in RunMessages :
             /\ parse_linear_cmd_from_protobuf(message).value = None
             /\ handle_message(message)

\* C13: a received text message, or a binary payload from which decode
\* recovers no Command, leaves current_position, target_position, speed,
\* current_movement and the last-command description unchanged, and the
\* receive activity goes on to await the next message.
C13_IgnoredMessageChangesNothing ==
    [][IgnoredMessage =>
          /\ UNCHANGED <<current_position, target_position, speed_mms,
                         current_movement, last_command_info>>
          /\ task'["message"] = "receiving"]_vars

\* C13 witness: a binary payload without a recoverable position has just been
\* discarded while a commanded movement was in progress; the movement, its
\* description and the receive activity are all still there.
C13_Witness ==
    /\ last_call.op = "unknown_message"
    /\ last_call.replaced # None
    /\ current_movement = last_call.replaced
    /\ current_position = last_call.prev_position
    /\ last_command_info # None
    /\ task["message"] = "receiving"

\* what the render activity was handed is a consistent picture: the moving
\* flag says whether a Movement is present, and a present Movement is active
\* and has the target the state holds
ConsistentFrame(f) ==
    /\ f.moving = (f.movement # None)
    /\ f.movement # None =>
          /\ f.movement[1].target_position = f.target
          /\ f.movement[1].is_active

\* C14: start_movement, the tick and the render read run without suspending,
\* so whatever the render activity reads is a state between two whole
\* operations: every frame is read in one step from one state, and in it the
\* moving flag agrees with the presence of current_movement and a present
\* current_movement has the state's target_position and is_active true.
C14_RenderSeesWholeUpdates ==
    /\ [](frame # None => ConsistentFrame(frame[1]))
    /\ [][frame' # frame =>
             frame' = Some([position |-> current_position,
                            target |-> target_position,
                            moving |-> Moving,
                            movement |-> current_movement,
                            speed_mms |-> speed_mms,
                            command_info |-> last_command_info])]_vars

\* C14 witness: the render activity has read the state while a commanded
\* movement was in progress, after a tick had moved the position away from
\* the movement's start.
C14_Witness ==
    /\ frame # None
    /\ frame[1].moving
    /\ frame[1].movement # None
    /\ frame[1].movement = current_movement
    /\ frame[1].target = frame[1].movement[1].target_position
    /\ frame[1].position # frame[1].movement[1].start_position
    /\ frame[1].position # frame[1].target
    /\ frame[1].command_info # None

\* the physics activity has just called update_position
TickStep == MovementStep /\ running

\* the receive activity has just taken a payload that decodes to a Command and
\* has called start_movement with it
CommandStep ==
    /\ MessageBinary
    /\ \E message \in RunMessages :
          /\ parse_linear_cmd_from_protobuf(message).value # None
          /\ handle_message(message)

\* C15: the model is Idle (no Movement) or Moving (an active Movement) and
\* nothing else; it starts Idle at 0.5; a Movement appears or is replaced only
\* by start_movement, which always leaves the model Moving; the model goes
\* from Moving to Idle only by a tick with elapsed >= duration_ms, and such a
\* tick always does so; no other step (render, a tick with elapsed <
\* duration_ms, an ignored message, the clock) changes current_movement.
C15_TwoStatesAndTheirTransitions ==
    /\ Idle /\ current_position = InitialPosition
    /\ [](Moving => current_movement[1].is_active)
    /\ [][CommandStep => Moving']_vars
    /\ [][(current_movement' # current_movement /\ Moving') => CommandStep]_vars
    /\ [][(Moving /\ Idle') =>
             /\ TickStep
             /\ now - current_movement[1].start_time_ms
                  >= current_movement[1].duration_ms]_vars
    /\ [][(TickStep /\ Moving
           /\ now - current_movement[1].start_time_ms
                >= current_movement[1].duration_ms) => Idle']_vars

\* C15 witness: after a command that replaced a movement in progress (Moving to
\* Moving), and after the render activity has read the state, a tick at
\* elapsed >= duration_ms has just taken the model from Moving to Idle.
C15_Witness ==
    /\ last_call.op = "update_position"
    /\ last_call.replaced # None
    /\ last_call.command # None
    /\ ~last_call.command[1].from_idle
    /\ frame # None
    /\ frame[1].moving
    /\ Idle
    /\ current_position # InitialPosition

\* the most recent command has been carried out: no Movement is left, the
\* speed is 0 and the position is that command's clamped target
CommandCompleted ==
    /\ Idle
    /\ speed_mms = RatInt(0)
    /\ last_call.command # None
    /\ current_position = C9_Position(last_call.command[1].position)

\* the Movement in progress ends after the last clock value of the model
EndsBeyondClock ==
    /\ Moving
    /\ current_movement[1].start_time_ms + current_movement[1].duration_ms
         > MaxRunClock

\* what a tick at clock value t makes of a movement from start to target that
\* began at t0 and lasts d milliseconds
TickResult(start, target, t0, d, t) ==
    IF t - t0 >= d THEN target
    ELSE RatAdd(start, RatMul(RatSub(target, start), Rat(t - t0, d)))

\* C16: once a command has been accepted, and as long as the session keeps
\* running and the clock can reach the end of the movement, the physics
\* activity eventually completes the most recent command: current_movement is
\* absent, speed is 0 and current_position is the clamped target.  And a
\* command received since the previous tick is the one the next tick
\* interpolates: that tick computes the position from the position the command
\* found, its clamped target and duration and the time it was received.
C16_CommandEventuallyCompleted ==
    /\ Moving ~> (CommandCompleted \/ ~running \/ EndsBeyondClock)
    /\ [][(TickStep /\ last_call.op = "start_movement") =>
             /\ Moving
             /\ current_position' =
                   TickResult(last_call.prev_position,
                              C9_Position(last_call.position),
                              current_movement[1].start_time_ms,
                              C9_Duration(last_call.duration_ms),
                              now)]_vars

\* C16 witness: the session is still running, and a tick has just completed
\* the command (0.75 in 100 ms) that had replaced an earlier one: no Movement,
\* speed 0, position 0.75.
C16_Witness ==
    /\ running
    /\ last_call.op = "update_position"
    /\ last_call.replaced # None
    /\ ~last_call.command[1].from_idle
    /\ now >= last_call.replaced[1].start_time_ms + last_call.replaced[1].duration_ms
    /\ CommandCompleted
    /\ current_position = Rat(3, 4)

====
